---- MODULE Spec2Model ----
(***************************************************************************)
(* Model of the ledger node of apps/src/lib/node/ledger/mod.rs:            *)
(*   - the Shell request dispatcher (Shell::call, Shell::load_proposals),  *)
(*   - the supervision of the node's tasks (run_aux and the start_*        *)
(*     functions).                                                         *)
(* Spec    is the dispatcher: one request at a time on the shell thread.   *)
(* SupSpec is run_aux with the tasks it spawns; SupFairSpec adds the       *)
(* fairness of the tokio scheduler.                                        *)
(***************************************************************************)
EXTENDS Integers, Sequences, FiniteSets, TLC

VARIABLES last_epoch, storage, proposal_data, pc, req, resp, fb_log,
          mempool_calls

shell_vars == <<last_epoch, storage, proposal_data, pc, req, resp, fb_log,
                mempool_calls>>

\* The configuration, run_aux and the tasks it spawns.
VARIABLES tendermint_mode, eth_mode, ra_pc, task_kind, task_status,
          task_result, abort_queue, aborted, cleanup_jobs, cleanup_i,
          cleanup_wait, cleanup_runs, abort_chan, resp_chan, shell_thread,
          db_cache, logged

\* What the start functions hand to whom: the Ethereum node that
\* maybe_start_geth boots, the oracle handle that run_aux gets back and the
\* one the shell is built with, and the holder of each end of the channel of
\* Ethereum events, of the control channel of the oracle and of the channel
\* of protocol transactions.
VARIABLES geth, eth_oracle_comms, eth_oracle, eth_sender, eth_receiver,
          control_sender, control_receiver, broadcaster_sender,
          broadcaster_receiver

wiring_vars == <<geth, eth_oracle_comms, eth_oracle, eth_sender, eth_receiver,
                 control_sender, control_receiver, broadcaster_sender,
                 broadcaster_receiver>>

sup_vars == <<tendermint_mode, eth_mode, ra_pc, task_kind, task_status,
              task_result, abort_queue, aborted, cleanup_jobs, cleanup_i,
              cleanup_wait, cleanup_runs, abort_chan, resp_chan, shell_thread,
              db_cache, logged, wiring_vars>>

\* The ABCI server of run_abci: the consensus requests delivered to it,
\* those that wait for room in their lane, the four lanes into the shell,
\* the requests the shell is handling and the consensus requests whose
\* handling has started and has finished, in this order.
VARIABLES cons_delivered, cons_wait, lane_q, disp_cur, cons_started,
          cons_answered

lane_vars == <<cons_delivered, cons_wait, lane_q, disp_cur, cons_started,
               cons_answered>>

\* The layers in front of the mempool lane: the requests the buffer holds
\* and what the latest CheckTx request met.
VARIABLES mp_q, mp_last

mempool_vars == <<mp_q, mp_last>>

\* The layers in front of the info lane: the requests the buffer holds,
\* what the latest request met, the rate limiter, and the numbers of
\* requests the limiter let through in the previous and in the current
\* half second and in its current period.
VARIABLES info_q, info_last, rate_limit, passed, period_passed

info_vars == <<info_q, info_last, rate_limit, passed, period_passed>>

\* The channel of Ethereum events from the oracle to the shell: the events
\* it holds, the number of the next event of the oracle, whether the oracle
\* is waiting in a send, the number of the event the shell received last,
\* and whether the shell still holds the receiver.
VARIABLES eth_chan, eth_next, eth_blocked, eth_received, eth_rx

eth_vars == <<eth_chan, eth_next, eth_blocked, eth_received, eth_rx>>

\* What the shell sends to the tasks: what the latest command on the
\* control channel of the oracle met, the protocol transactions in the
\* channel to the broadcaster, the number of the next one, those the
\* broadcaster has submitted, each with the outcome of its submission, and
\* the number of those that found no receiver.
VARIABLES control_last, bc_chan, bc_next, bc_submitted, bc_lost

relay_vars == <<control_last, bc_chan, bc_next, bc_submitted, bc_lost>>

net_vars == <<lane_vars, mempool_vars, info_vars, eth_vars, relay_vars>>

vars == <<shell_vars, sup_vars, net_vars>>

(***************************************************************************)
(* Bounds of the model.                                                    *)
(***************************************************************************)
\* Epochs are 0..MaxEpoch; 11 makes the decimal prefix collisions of
\* epoch 1 with 10 and 11 happen.
MaxEpoch == 11
\* Proposal ids created while the dispatcher runs are 0..MaxId.
MaxId == 0
\* Proposal ids of the stores load_proposals is applied to are 0..MaxLoadId.
MaxLoadId == 1

Epochs == 0..MaxEpoch
Ids == 0..MaxId
LoadIds == 0..MaxLoadId

\* Option::None of a parsed number, of a parsed key and of a parsed enum.
NoneU64 == -1
NoneKey == <<>>
NoneType == "None"

(***************************************************************************)
(* Strings: a string is a sequence of one-character strings.  The three    *)
(* fixed segments of a governance key are kept as one token each.          *)
(***************************************************************************)
DigitChars == <<"0", "1", "2", "3", "4", "5", "6", "7", "8", "9">>

\* u64::to_string: the decimal digits of n, most significant first.
RECURSIVE to_string(_)
to_string(n) ==
    IF n < 10 THEN <<DigitChars[n + 1]>>
    ELSE to_string(n \div 10) \o <<DigitChars[(n % 10) + 1]>>

IsDigit(c) == \E d \in 1..10 : DigitChars[d] = c

DigitValue(c) == (CHOOSE d \in 1..10 : DigitChars[d] = c) - 1

RECURSIVE parse_digits(_, _)
parse_digits(s, acc) ==
    IF s = <<>> THEN acc
    ELSE parse_digits(Tail(s), acc * 10 + DigitValue(Head(s)))

\* str::parse::<u64>().ok(): None on an empty string or a non-digit.
parse_u64(s) ==
    IF s = <<>> \/ \E i \in 1..Len(s) : ~IsDigit(s[i]) THEN NoneU64
    ELSE parse_digits(s, 0)

\* str::starts_with
starts_with(s, p) ==
    /\ Len(p) <= Len(s)
    /\ \A i \in 1..Len(p) : s[i] = p[i]

\* Splits a string into its segments at the '/' separators.
RECURSIVE split_segments(_, _, _)
split_segments(s, cur, acc) ==
    IF s = <<>> THEN Append(acc, cur)
    ELSE IF Head(s) = "/" THEN split_segments(Tail(s), <<>>, Append(acc, cur))
    ELSE split_segments(Tail(s), Append(cur, Head(s)), acc)

\* Key::from_str: the segments of a db key; None when a segment is empty.
Key_from_str(s) ==
    LET segs == split_segments(s, <<>>, <<>>)
    IN  IF \E i \in 1..Len(segs) : segs[i] = <<>> THEN NoneKey ELSE segs

\* Key::to_string: the segments joined by '/'.
RECURSIVE Key_to_string(_)
Key_to_string(segs) ==
    IF Len(segs) = 1 THEN segs[1]
    ELSE segs[1] \o <<"/">> \o Key_to_string(Tail(segs))

(***************************************************************************)
(* Governance storage keys (namada::ledger::governance::storage).          *)
(***************************************************************************)
\* #gov/proposal/epoch/<epoch>
get_commiting_proposals_prefix(epoch) ==
    Key_to_string(<< <<"#gov">>, <<"proposal">>, <<"epoch">>, to_string(epoch) >>)

\* #gov/proposal/epoch/<epoch>/<id>
get_committing_proposals_key(id, epoch) ==
    Key_to_string(<< <<"#gov">>, <<"proposal">>, <<"epoch">>, to_string(epoch),
                     to_string(id) >>)

\* The epoch segment (index 3, counted from 0) parsed as u64.
get_commit_proposal_epoch(key) ==
    IF Len(key) >= 4 THEN parse_u64(key[4]) ELSE NoneU64

\* The id segment (index 4, counted from 0) parsed as u64.
get_commit_proposal_id(key) ==
    IF Len(key) >= 5 THEN parse_u64(key[5]) ELSE NoneU64

\* Storage::iter_prefix: every stored key whose string starts with the prefix.
iter_prefix(st, prefix) == {k \in st : starts_with(k, prefix)}

(***************************************************************************)
(* Shell::load_proposals                                                   *)
(***************************************************************************)
\* The keys the prefix scan of load_proposals returns at epoch e.
proposal_iter(st, e) == iter_prefix(st, get_commiting_proposals_prefix(e))

\* The expect/unwrap of the loop: a scanned key that is no Key, or whose
\* epoch segment is no u64, aborts the shell thread.
load_proposals_panics(st, e) ==
    \E k \in proposal_iter(st, e) :
        \/ Key_from_str(k) = NoneKey
        \/ get_commit_proposal_epoch(Key_from_str(k)) = NoneU64

\* load_proposals without the comparison of the epoch segment: every key
\* the prefix scan returns is loaded.
load_proposals_no_epoch_check(pd, st, e) ==
    pd \cup { get_commit_proposal_id(Key_from_str(k)) :
                k \in { x \in proposal_iter(st, e) :
                          get_commit_proposal_id(Key_from_str(x)) # NoneU64 } }

\* load_proposals with the comparison inverted (== for !=): the scanned
\* keys of the other epochs are loaded and those of epoch e are skipped.
load_proposals_inverted_check(pd, st, e) ==
    pd \cup { get_commit_proposal_id(Key_from_str(k)) :
                k \in { x \in proposal_iter(st, e) :
                          /\ get_commit_proposal_epoch(Key_from_str(x)) # e
                          /\ get_commit_proposal_id(Key_from_str(x)) # NoneU64 } }

\* load_proposals with the insert replaced by a toggle: an id that is
\* already pending is removed.
load_proposals_toggles(pd, st, e) ==
    LET ids == { get_commit_proposal_id(Key_from_str(k)) :
                   k \in { x \in proposal_iter(st, e) :
                             /\ get_commit_proposal_epoch(Key_from_str(x)) = e
                             /\ get_commit_proposal_id(Key_from_str(x))
                                    # NoneU64 } }
    IN  (pd \ ids) \cup (ids \ pd)

\* The pending set after the loop: an id is inserted for every scanned key
\* whose epoch segment equals e and whose id segment parses.
load_proposals(pd, st, e) ==
    pd \cup { get_commit_proposal_id(Key_from_str(k)) :
                k \in { x \in proposal_iter(st, e) :
                          /\ get_commit_proposal_epoch(Key_from_str(x)) = e
                          /\ get_commit_proposal_id(Key_from_str(x)) # NoneU64 } }

(***************************************************************************)
(* Requests and responses of Shell::call.                                  *)
(***************************************************************************)
\* CheckTx type values sent by Tendermint are 0..MaxCheckTxType.
MaxCheckTxType == 2
\* Request contents (an Echo message, a snapshot request) are 0..MaxArg.
MaxArg == 1

CheckTxTypeValues == 0..MaxCheckTxType
Args == 0..MaxArg

SnapshotKinds ==
    {"ListSnapshots", "OfferSnapshot", "LoadSnapshotChunk", "ApplySnapshotChunk"}

ReadOnlyKinds == {"Info", "Query", "Echo", "Flush"}

RequestKinds ==
    {"InitChain", "PrepareProposal", "VerifyHeader", "ProcessProposal",
     "RevertProposal", "FinalizeBlock", "Commit", "CheckTx"}
    \cup ReadOnlyKinds \cup SnapshotKinds

NoReq == [kind |-> "None", arg |-> 0]
\* Bodies are numbers: 0 is the default (empty) value of a response type.
DefaultBody == 0
NoResp == [tag |-> "None", variant |-> "None", body |-> DefaultBody]

Request(k, a) == [kind |-> k, arg |-> a]
\* Ok(Response::<variant>(body))
OkResponse(variant, body) == [tag |-> "Ok", variant |-> variant, body |-> body]
\* Err(Error)
ErrResponse == [tag |-> "Err", variant |-> "Error", body |-> DefaultBody]
\* The handler panicked: the shell thread unwinds and no value is returned.
PanicOutcome == [tag |-> "Panic", variant |-> "None", body |-> DefaultBody]

(***************************************************************************)
(* The handlers of the shell that Shell::call delegates to.                *)
(***************************************************************************)
\* Shell::init_chain returns Result: genesis is accepted or malformed.
init_chain_results == {"Ok", "Err"}

\* Shell::last_state: the last committed state, read only.
last_state(e) == e

\* Shell::query: a read-only lookup, here whether proposal q is stored.
query(st, q) ==
    IF \E e \in Epochs : get_committing_proposals_key(q, e) \in st THEN 1 ELSE 0

\* Shell::process_proposal: accepts (0) or rejects (1) the proposed block.
process_proposal_results == {0, 1}

\* Shell::mempool_validate: the result code, accepted (0) or rejected (1).
mempool_validate_results == {0, 1}

\* The blocks FinalizeBlock can carry: no governance transaction, or one
\* that stores a new proposal.  Ids come from the proposal counter and the
\* commit epoch of a new proposal lies after the current epoch.
Blocks(st, e) ==
    {<<>>} \cup
    { <<[id |-> Cardinality(st), epoch |-> g]>> :
        g \in {x \in Epochs : x > e /\ Cardinality(st) <= MaxId} }

\* Shell::finalize_block on success: the transactions of the block are
\* applied, extending the store.
finalize_block(st, txs) ==
    st \cup { get_committing_proposals_key(txs[i].id, txs[i].epoch) :
                i \in 1..Len(txs) }

\* Shell::commit: the epoch of the committed block becomes the last epoch.
commit_epochs(e) == {e} \cup {x \in Epochs : x = e + 1}

\* CheckTxType::from_i32
CheckTxType_from_i32(n) ==
    CASE n = 0 -> "New"
      [] n = 1 -> "Recheck"
      [] OTHER -> NoneType

\* The match of the CheckTx arm with its two arms exchanged.
MempoolTxType_swapped(t) ==
    CASE t = "New" -> "RecheckTransaction"
      [] t = "Recheck" -> "NewTransaction"

\* The match of the CheckTx arm on the parsed type.
MempoolTxType(t) ==
    CASE t = "New" -> "NewTransaction"
      [] t = "Recheck" -> "RecheckTransaction"

(***************************************************************************)
(* run_aux and the tasks it starts.  The five join handles are those of    *)
(* the try_join of run_aux.  A task spawned through the AbortableSpawner   *)
(* is "abortable": it owns an Aborter, whose drop sends the abort message, *)
(* and its cleanup job is registered with the spawner.  A task spawned by  *)
(* run_oracle is "plain", one of spawn_dummy_task is "dummy".              *)
(***************************************************************************)
Tasks == {"Tendermint", "Ethereum", "ABCI", "Oracle", "Broadcaster"}

TendermintModes == {"Validator", "Full", "Seed"}
EthereumModes == {"Managed", "Remote", "EventsEndpoint", "Off"}

\* The tasks whose cleanup sends a reply channel and awaits the reply.
HasHandshake(t) == t \in {"Tendermint", "Ethereum", "Oracle"}

\* The outcomes of a task body that ends on its own: the tasks of
\* Tendermint and ABCI return a Result, the others return (); any body may
\* panic.
Results(t) ==
    IF t \in {"Tendermint", "ABCI"} THEN {"ok", "err", "panic"}
    ELSE {"ok", "panic"}

\* Aborter::drop: the abort message of task t is sent to the spawner.
drop_aborter_forgotten(q, t) == q

drop_aborter(q, t) == q \cup {t}

SupInit ==
    /\ ra_pc = "start_tendermint"
    /\ task_kind = [t \in Tasks |-> "none"]
    /\ task_status = [t \in Tasks |-> "unspawned"]
    /\ task_result = [t \in Tasks |-> "none"]
    /\ abort_queue = {}
    /\ aborted = "none"
    /\ cleanup_jobs = <<>>
    /\ cleanup_i = 1
    /\ cleanup_wait = FALSE
    /\ cleanup_runs = [t \in Tasks |-> 0]
    /\ abort_chan = [t \in Tasks |-> "none"]
    /\ resp_chan = [t \in Tasks |-> "none"]
    /\ shell_thread = "unspawned"
    /\ db_cache = "none"
    /\ logged = {}
    /\ geth = "none"
    /\ eth_oracle_comms = "unset"
    /\ eth_oracle = "unset"
    /\ eth_sender = "none"
    /\ eth_receiver = "none"
    /\ control_sender = "none"
    /\ control_receiver = "none"
    /\ broadcaster_sender = "none"
    /\ broadcaster_receiver = "none"

\* spawn_abortable(..).with_cleanup(..): the task runs, its abort channel
\* is open and its cleanup job is queued.
SpawnAbortable(t) ==
    /\ task_kind' = [task_kind EXCEPT ![t] = "abortable"]
    /\ task_status' = [task_status EXCEPT ![t] = "running"]
    /\ abort_chan' = [abort_chan EXCEPT ![t] = "open"]
    /\ cleanup_jobs' = Append(cleanup_jobs, t)
    /\ UNCHANGED task_result

SpawnDummy_pending(t) ==
    /\ task_kind' = [task_kind EXCEPT ![t] = "dummy"]
    /\ task_status' = [task_status EXCEPT ![t] = "running"]
    /\ UNCHANGED <<task_result, abort_chan, cleanup_jobs>>

\* spawn_dummy_task: a task that resolves at once.
SpawnDummy(t) ==
    /\ task_kind' = [task_kind EXCEPT ![t] = "dummy"]
    /\ task_status' = [task_status EXCEPT ![t] = "finished"]
    /\ task_result' = [task_result EXCEPT ![t] = "ok"]
    /\ UNCHANGED <<abort_chan, cleanup_jobs>>

\* run_oracle: a task of its own, with no Aborter and no cleanup job.
SpawnPlain(t) ==
    /\ task_kind' = [task_kind EXCEPT ![t] = "plain"]
    /\ task_status' = [task_status EXCEPT ![t] = "running"]
    /\ UNCHANGED <<task_result, abort_chan, cleanup_jobs>>

run_aux_rest == <<tendermint_mode, eth_mode, abort_queue, aborted, cleanup_i,
                  cleanup_wait, cleanup_runs, resp_chan, logged>>

StartTendermint ==
    /\ ra_pc = "start_tendermint"
    /\ SpawnAbortable("Tendermint")
    /\ ra_pc' = "maybe_start_geth"
    /\ UNCHANGED <<run_aux_rest, shell_thread, db_cache, wiring_vars,
                   shell_vars, net_vars>>

\* A validator in the mode Managed boots the Ethereum node, waits until it
\* has finished syncing and spawns the task that monitors it; every other
\* configuration gets a dummy task.  The node is taken to start.
MaybeStartGeth ==
    /\ ra_pc = "maybe_start_geth"
    /\ IF tendermint_mode # "Validator" \/ eth_mode # "Managed"
       THEN /\ SpawnDummy("Ethereum")
            /\ UNCHANGED geth
       ELSE /\ geth' = "synced"
            /\ SpawnAbortable("Ethereum")
    /\ ra_pc' = "maybe_start_ethereum_oracle"
    /\ UNCHANGED <<run_aux_rest, shell_thread, db_cache, eth_oracle_comms,
                   eth_oracle, eth_sender, eth_receiver, control_sender,
                   control_receiver, broadcaster_sender, broadcaster_receiver,
                   shell_vars, net_vars>>

\* The two channels are created in every mode.  In the modes Managed and
\* Remote run_oracle gets the sender of the events and the receiver of the
\* commands; the events endpoint gets the sender of the events only; in
\* these three modes the other two ends go into the oracle handle.  What
\* is handed to nobody is dropped when the function returns.
MaybeStartEthereumOracle ==
    /\ ra_pc = "maybe_start_ethereum_oracle"
    /\ CASE eth_mode \in {"Managed", "Remote"} ->
               /\ SpawnPlain("Oracle")
               /\ eth_sender' = "Oracle"
               /\ control_receiver' = "Oracle"
               /\ eth_receiver' = "handle"
               /\ control_sender' = "handle"
               /\ eth_oracle_comms' = "Some"
         [] eth_mode = "EventsEndpoint" ->
               /\ SpawnAbortable("Oracle")
               /\ eth_sender' = "Oracle"
               /\ control_receiver' = "dropped"
               /\ eth_receiver' = "handle"
               /\ control_sender' = "handle"
               /\ eth_oracle_comms' = "Some"
         [] eth_mode = "Off" ->
               /\ SpawnDummy("Oracle")
               /\ eth_sender' = "dropped"
               /\ control_receiver' = "dropped"
               /\ eth_receiver' = "dropped"
               /\ control_sender' = "dropped"
               /\ eth_oracle_comms' = "None"
    /\ ra_pc' = "start_abci_broadcaster_shell"
    /\ UNCHANGED <<run_aux_rest, shell_thread, db_cache, geth, eth_oracle,
                   broadcaster_sender, broadcaster_receiver, shell_vars,
                   net_vars>>

\* What the oracle handle holds goes to the shell that is built with it.
into_shell(holder) == IF holder = "handle" THEN "shell" ELSE holder

\* matches!(config.tendermint.tendermint_mode, TendermintMode::Validator)
is_validator_or_full(mode) == mode \in {"Validator", "Full"}

is_validator(mode) == mode = "Validator"

\* The broadcaster (a validator's only), the ABCI server and the shell
\* thread are started, in this order.  The broadcaster gets the receiver of
\* the protocol transactions, which is dropped when the function returns if
\* there is no broadcaster; the shell gets the sender and the oracle handle.
\* The cache of the database is a local of the function: it is created
\* before the shell, lent to the constructor of the shell, and dropped when
\* the function returns.
StartAbciBroadcasterShell ==
    /\ ra_pc = "start_abci_broadcaster_shell"
    /\ LET validator == is_validator(tendermint_mode)
       IN  /\ task_kind' = [task_kind EXCEPT
                   !["Broadcaster"] = IF validator THEN "abortable" ELSE "dummy",
                   !["ABCI"] = "abortable"]
           /\ task_status' = [task_status EXCEPT
                   !["Broadcaster"] = IF validator THEN "running" ELSE "finished",
                   !["ABCI"] = "running"]
           /\ task_result' = [task_result EXCEPT
                   !["Broadcaster"] = IF validator THEN "none" ELSE "ok"]
           /\ abort_chan' = [abort_chan EXCEPT
                   !["Broadcaster"] = IF validator THEN "open" ELSE "none",
                   !["ABCI"] = "open"]
           /\ cleanup_jobs' =
                   (IF validator THEN Append(cleanup_jobs, "Broadcaster")
                    ELSE cleanup_jobs) \o <<"ABCI">>
           /\ broadcaster_receiver' =
                   IF validator THEN "Broadcaster" ELSE "dropped"
    /\ broadcaster_sender' = "shell"
    /\ eth_oracle' = eth_oracle_comms
    /\ eth_receiver' = into_shell(eth_receiver)
    /\ control_sender' = into_shell(control_sender)
    /\ shell_thread' = "running"
    /\ db_cache' = "dropped"
    /\ ra_pc' = "wait_for_abort"
    /\ UNCHANGED <<run_aux_rest, geth, eth_oracle_comms, eth_sender,
                   control_receiver, shell_vars, net_vars>>

(***************************************************************************)
(* The bodies of the tasks.                                                *)
(***************************************************************************)
task_rest == <<tendermint_mode, eth_mode, ra_pc, task_kind, aborted,
               cleanup_jobs, cleanup_i, cleanup_wait, cleanup_runs,
               shell_thread, db_cache,
               wiring_vars>>

LogEntry(msg, who) == [msg |-> msg, who |-> who]

\* The body of task t ends on its own (the process it manages exits, the
\* server stops, the body panics).  Its abort receiver is dropped, with an
\* abort request that was sent and not received, and so is its Aborter.
\* The Tendermint task logs the error it returns.
TaskExit(t) ==
    /\ task_status[t] = "running"
    /\ \E r \in Results(t) :
          /\ task_result' = [task_result EXCEPT ![t] = r]
          /\ logged' = IF t = "Tendermint" /\ r = "err"
                       THEN logged \cup {LogEntry("own error", t)}
                       ELSE logged
    /\ task_status' = [task_status EXCEPT ![t] = "finished"]
    /\ IF task_kind[t] = "abortable"
       THEN /\ abort_queue' = drop_aborter(abort_queue, t)
            /\ abort_chan' = [abort_chan EXCEPT ![t] = "rx_dropped"]
            /\ resp_chan' = [resp_chan EXCEPT
                                ![t] = IF @ = "waiting" THEN "closed" ELSE @]
       ELSE UNCHANGED <<abort_queue, abort_chan, resp_chan>>
    /\ UNCHANGED <<task_rest, shell_vars, net_vars>>

\* Task t receives the abort request of its cleanup job and stops what it
\* manages; a task with a handshake acknowledges on the reply channel, or
\* fails to.
TaskHandleAbort(t) ==
    /\ task_status[t] = "running"
    /\ abort_chan[t] = "sent"
    /\ task_status' = [task_status EXCEPT ![t] = "stopping"]
    /\ abort_chan' = [abort_chan EXCEPT ![t] = "received"]
    /\ IF HasHandshake(t)
       THEN \E ack \in BOOLEAN :
                resp_chan' = [resp_chan EXCEPT
                                 ![t] = IF ack THEN "acked" ELSE "waiting"]
       ELSE UNCHANGED resp_chan
    /\ UNCHANGED <<task_result, abort_queue, logged, task_rest, shell_vars, net_vars>>

\* A task that was told to stop returns: a reply sender that was not used
\* is dropped and the Aborter is dropped.
TaskFinish(t) ==
    /\ task_status[t] = "stopping"
    /\ task_status' = [task_status EXCEPT ![t] = "finished"]
    /\ task_result' = [task_result EXCEPT ![t] = "ok"]
    /\ resp_chan' = [resp_chan EXCEPT
                        ![t] = IF @ = "waiting" THEN "closed" ELSE @]
    /\ abort_queue' = drop_aborter(abort_queue, t)
    /\ UNCHANGED <<abort_chan, logged, task_rest, shell_vars, net_vars>>

\* The oracle of run_oracle ends when the shell, which holds the receiver
\* of its events, is gone.
OracleStops ==
    /\ task_kind["Oracle"] = "plain"
    /\ task_status["Oracle"] = "running"
    /\ shell_thread \in {"finished", "panicked"}
    /\ task_status' = [task_status EXCEPT !["Oracle"] = "finished"]
    /\ task_result' = [task_result EXCEPT !["Oracle"] = "ok"]
    /\ UNCHANGED <<abort_queue, abort_chan, resp_chan, logged, task_rest,
                   shell_vars, net_vars>>

\* shell.run() returns when the ABCI service is gone.
ShellThreadExit ==
    /\ shell_thread = "running"
    /\ task_status["ABCI"] = "finished"
    /\ shell_thread' = "finished"
    /\ UNCHANGED <<tendermint_mode, eth_mode, ra_pc, task_kind, task_status,
                   task_result, abort_queue, aborted, cleanup_jobs, cleanup_i,
                   cleanup_wait, cleanup_runs, abort_chan, resp_chan, logged,
                   db_cache, wiring_vars, shell_vars, net_vars>>

\* A handler of the shell panics and the shell thread unwinds.
ShellThreadPanic ==
    /\ shell_thread = "running"
    /\ shell_thread' = "panicked"
    /\ UNCHANGED <<tendermint_mode, eth_mode, ra_pc, task_kind, task_status,
                   task_result, abort_queue, aborted, cleanup_jobs, cleanup_i,
                   cleanup_wait, cleanup_runs, abort_chan, resp_chan, logged,
                   db_cache, wiring_vars, shell_vars, net_vars>>

(***************************************************************************)
(* run_aux from wait_for_abort on.                                         *)
(***************************************************************************)
wait_rest == <<tendermint_mode, eth_mode, task_kind, task_status, task_result,
               abort_queue, cleanup_jobs, cleanup_i, cleanup_wait,
               cleanup_runs, abort_chan, resp_chan, shell_thread,
               db_cache, logged,
               wiring_vars>>

WaitForAbortChild_fires_again ==
    /\ ra_pc \in {"wait_for_abort", "try_join"}
    /\ abort_queue # {}
    /\ aborted' = "child_terminated"
    /\ ra_pc' = "cleanup"
    /\ cleanup_i' = 1
    /\ UNCHANGED <<tendermint_mode, eth_mode, task_kind, task_status,
                   task_result, abort_queue, cleanup_jobs, cleanup_wait,
                   cleanup_runs, abort_chan, resp_chan, shell_thread,
                   db_cache, logged, wiring_vars, shell_vars, net_vars>>

\* wait_for_abort receives the abort message of a task that ended.
WaitForAbortChild ==
    /\ ra_pc = "wait_for_abort"
    /\ abort_queue # {}
    /\ aborted' = "child_terminated"
    /\ ra_pc' = "cleanup"
    /\ UNCHANGED <<wait_rest, shell_vars, net_vars>>

\* wait_for_abort receives an interrupt signal.
WaitForAbortInterrupt ==
    /\ ra_pc = "wait_for_abort"
    /\ aborted' = "user_shutdown"
    /\ ra_pc' = "cleanup"
    /\ UNCHANGED <<wait_rest, shell_vars, net_vars>>

cleanup_rest == <<tendermint_mode, eth_mode, task_kind, task_status,
                  task_result, abort_queue, aborted, cleanup_jobs,
                  shell_thread, db_cache,
                  wiring_vars>>

CleanupSend_always_waits ==
    /\ ra_pc = "cleanup"
    /\ ~cleanup_wait
    /\ cleanup_i <= Len(cleanup_jobs)
    /\ LET t == cleanup_jobs[cleanup_i]
           delivered == abort_chan[t] = "open"
       IN  /\ cleanup_runs' = [cleanup_runs EXCEPT ![t] = @ + 1]
           /\ abort_chan' = [abort_chan EXCEPT
                                ![t] = IF delivered THEN "sent" ELSE @]
           /\ IF HasHandshake(t)
              THEN /\ resp_chan' = [resp_chan EXCEPT ![t] = "waiting"]
                   /\ cleanup_wait' = TRUE
                   /\ UNCHANGED cleanup_i
              ELSE /\ cleanup_i' = cleanup_i + 1
                   /\ UNCHANGED <<resp_chan, cleanup_wait>>
    /\ UNCHANGED <<ra_pc, logged, cleanup_rest, shell_vars, net_vars>>

\* The cleanup job of cleanup_jobs[cleanup_i] sends the abort request.  A
\* plain job ignores the result of the send.  A handshake job sends a reply
\* sender and awaits the reply if the request was delivered; it is done at
\* once if the task has dropped its receiver.
CleanupSend ==
    /\ ra_pc = "cleanup"
    /\ ~cleanup_wait
    /\ cleanup_i <= Len(cleanup_jobs)
    /\ LET t == cleanup_jobs[cleanup_i]
           delivered == abort_chan[t] = "open"
       IN  /\ cleanup_runs' = [cleanup_runs EXCEPT ![t] = @ + 1]
           /\ abort_chan' = [abort_chan EXCEPT
                                ![t] = IF delivered THEN "sent" ELSE @]
           /\ IF HasHandshake(t) /\ delivered
              THEN /\ resp_chan' = [resp_chan EXCEPT ![t] = "waiting"]
                   /\ cleanup_wait' = TRUE
                   /\ UNCHANGED cleanup_i
              ELSE /\ cleanup_i' = cleanup_i + 1
                   /\ UNCHANGED <<resp_chan, cleanup_wait>>
    /\ UNCHANGED <<ra_pc, logged, cleanup_rest, shell_vars, net_vars>>

CleanupAwait_without_reply ==
    /\ ra_pc = "cleanup"
    /\ cleanup_wait
    /\ cleanup_wait' = FALSE
    /\ cleanup_i' = cleanup_i + 1
    /\ UNCHANGED <<ra_pc, logged, cleanup_runs, abort_chan, resp_chan,
                   cleanup_rest, shell_vars, net_vars>>

\* The handshake job receives the reply, or finds the reply channel closed,
\* which it logs.
CleanupAwait ==
    /\ ra_pc = "cleanup"
    /\ cleanup_wait
    /\ LET t == cleanup_jobs[cleanup_i]
       IN  /\ resp_chan[t] \in {"acked", "closed"}
           /\ logged' = IF resp_chan[t] = "closed"
                        THEN logged \cup {LogEntry("no response", t)}
                        ELSE logged
    /\ cleanup_wait' = FALSE
    /\ cleanup_i' = cleanup_i + 1
    /\ UNCHANGED <<ra_pc, cleanup_runs, abort_chan, resp_chan, cleanup_rest,
                   shell_vars, net_vars>>

\* All cleanup jobs have run: wait_for_abort returns.
CleanupDone ==
    /\ ra_pc = "cleanup"
    /\ ~cleanup_wait
    /\ cleanup_i > Len(cleanup_jobs)
    /\ ra_pc' = "try_join"
    /\ UNCHANGED <<aborted, wait_rest, shell_vars, net_vars>>

join_rest == <<tendermint_mode, eth_mode, task_kind, task_status, task_result,
               abort_queue, aborted, cleanup_jobs, cleanup_i, cleanup_wait,
               cleanup_runs, abort_chan, resp_chan, shell_thread, db_cache,
               wiring_vars>>

\* try_join! with every handle resolved to Ok: the errors the Tendermint
\* and ABCI tasks returned are logged if a task caused the shutdown.
TryJoinOk ==
    /\ ra_pc = "try_join"
    /\ \A t \in Tasks : task_status[t] = "finished" /\ task_result[t] # "panic"
    /\ logged' = logged \cup
          (IF aborted = "child_terminated"
           THEN { LogEntry("task error", t) :
                    t \in {x \in {"Tendermint", "ABCI"} : task_result[x] = "err"} }
           ELSE {})
    /\ ra_pc' = "join_shell"
    /\ UNCHANGED <<join_rest, shell_vars, net_vars>>

\* try_join! returns the JoinError of a task that panicked as soon as it
\* sees it; the error is logged.
TryJoinErr ==
    /\ ra_pc = "try_join"
    /\ \E t \in Tasks : task_status[t] = "finished" /\ task_result[t] = "panic"
    /\ logged' = logged \cup {LogEntry("ledger error", "run_aux")}
    /\ ra_pc' = "join_shell"
    /\ UNCHANGED <<join_rest, shell_vars, net_vars>>

\* shell_handler.join(), and resume_unwind if the shell thread panicked.
JoinShell ==
    /\ ra_pc = "join_shell"
    /\ shell_thread \in {"finished", "panicked"}
    /\ ra_pc' = IF shell_thread = "panicked" THEN "panicked" ELSE "done"
    /\ UNCHANGED <<logged, join_rest, shell_vars, net_vars>>

\* The steps of run_aux that need no event from outside the node.
RunAuxStep ==
    \/ StartTendermint
    \/ MaybeStartGeth
    \/ MaybeStartEthereumOracle
    \/ StartAbciBroadcasterShell
    \/ WaitForAbortChild
    \/ CleanupSend
    \/ CleanupAwait
    \/ CleanupDone
    \/ TryJoinOk
    \/ TryJoinErr
    \/ JoinShell

SupNext ==
    \/ RunAuxStep
    \/ WaitForAbortInterrupt
    \/ \E t \in Tasks : TaskExit(t)
    \/ \E t \in Tasks : TaskHandleAbort(t)
    \/ \E t \in Tasks : TaskFinish(t)
    \/ OracleStops
    \/ ShellThreadExit
    \/ ShellThreadPanic

(***************************************************************************)
(* Shell::call: one action per arm of the match.  A request is taken only  *)
(* when the shell thread is idle; FinalizeBlock runs its two statements as *)
(* two steps, every other arm is one step.                                 *)
(***************************************************************************)
Lanes == {"consensus", "mempool", "snapshot", "info"}

LaneInit ==
    /\ cons_delivered = 0
    /\ cons_wait = <<>>
    /\ lane_q = [l \in Lanes |-> <<>>]
    /\ disp_cur = {}
    /\ cons_started = <<>>
    /\ cons_answered = <<>>

MempoolInit ==
    /\ mp_q = 0
    /\ mp_last = "none"

\* RateLimit::new: a period that has already ended.
InfoInit ==
    /\ info_q = 0
    /\ info_last = "none"
    /\ rate_limit = [state |-> "Ready", rem |-> 0, left |-> 0]
    /\ passed = <<0, 0>>
    /\ period_passed = 0

MaxEventId == 2

EventIds == 0..MaxEventId

\* The number of the event that follows event n.
next_event(n) == (n + 1) % (MaxEventId + 1)

\* mpsc::channel: empty, with both ends alive; the events are numbered from
\* 0, so that the one before the first is MaxEventId.
EthInit ==
    /\ eth_chan = <<>>
    /\ eth_next = 0
    /\ eth_blocked = FALSE
    /\ eth_received = MaxEventId
    /\ eth_rx = "alive"

RelayInit ==
    /\ control_last = "none"
    /\ bc_chan = <<>>
    /\ bc_next = 1
    /\ bc_submitted = <<>>
    /\ bc_lost = 0

NetInit == LaneInit /\ MempoolInit /\ InfoInit /\ EthInit /\ RelayInit

ShellInit ==
    /\ last_epoch = 0
    /\ storage = {}
    /\ proposal_data = {}
    /\ pc = "idle"
    /\ req = NoReq
    /\ resp = NoResp
    /\ fb_log = <<>>
    /\ mempool_calls = <<>>

\* The node as the dispatcher model sees it: a validator without bridge.
Init ==
    /\ ShellInit
    /\ SupInit
    /\ tendermint_mode = "Validator"
    /\ eth_mode = "Off"
    /\ NetInit

\* An arm that touches neither the chain state nor the pending set.
Answer(r, out) ==
    /\ req' = r
    /\ resp' = out
    /\ fb_log' = <<>>
    /\ mempool_calls' = <<>>
    /\ UNCHANGED <<last_epoch, storage, proposal_data, pc>>
    /\ UNCHANGED <<sup_vars, net_vars>>

InitChain ==
    /\ pc = "idle"
    /\ \E r \in init_chain_results :
        Answer(Request("InitChain", 0),
               IF r = "Ok" THEN OkResponse("InitChain", DefaultBody)
               ELSE ErrResponse)

Info ==
    /\ pc = "idle"
    /\ Answer(Request("Info", 0), OkResponse("Info", last_state(last_epoch)))

Query ==
    /\ pc = "idle"
    /\ \E q \in Ids :
        Answer(Request("Query", q), OkResponse("Query", query(storage, q)))

PrepareProposal ==
    /\ pc = "idle"
    /\ Answer(Request("PrepareProposal", 0),
              OkResponse("PrepareProposal", DefaultBody))

VerifyHeader ==
    /\ pc = "idle"
    /\ Answer(Request("VerifyHeader", 0),
              OkResponse("VerifyHeader", DefaultBody))

ProcessProposal_returns_error ==
    /\ pc = "idle"
    /\ \E r \in process_proposal_results :
        Answer(Request("ProcessProposal", 0),
               IF r = DefaultBody THEN OkResponse("ProcessProposal", r)
               ELSE ErrResponse)

ProcessProposal ==
    /\ pc = "idle"
    /\ \E r \in process_proposal_results :
        Answer(Request("ProcessProposal", 0),
               OkResponse("ProcessProposal", r))

RevertProposal ==
    /\ pc = "idle"
    /\ Answer(Request("RevertProposal", 0),
              OkResponse("RevertProposal", DefaultBody))

\* The FinalizeBlock arm with its two statements exchanged.
FinalizeBlockBody_apply_first == <<"finalize_block", "load_proposals">>

\* The statements of the FinalizeBlock arm, in the order of the source.
FinalizeBlockBody == <<"load_proposals", "finalize_block">>

\* The FinalizeBlock arm with a rollback: a failed application takes the
\* ids of the last committed epoch out of the pending set again.
FinalizeBlockStmt_rolls_back(stmt, log, out, nextpc) ==
    IF stmt = "load_proposals"
    THEN IF load_proposals_panics(storage, last_epoch)
         THEN /\ pc' = "panicked"
              /\ resp' = PanicOutcome
              /\ fb_log' = log
              /\ UNCHANGED <<storage, proposal_data>>
         ELSE /\ proposal_data' =
                     load_proposals(proposal_data, storage, last_epoch)
              /\ fb_log' = Append(log, "load")
              /\ resp' = out
              /\ pc' = nextpc
              /\ UNCHANGED storage
    ELSE \E ok \in BOOLEAN, txs \in Blocks(storage, last_epoch) :
              /\ storage' = IF ok THEN finalize_block(storage, txs) ELSE storage
              /\ resp' = IF ok THEN OkResponse("FinalizeBlock", DefaultBody)
                         ELSE ErrResponse
              /\ fb_log' = Append(log, "apply")
              /\ pc' = nextpc
              /\ proposal_data' =
                     IF ok THEN proposal_data
                     ELSE proposal_data
                            \ load_proposals({}, storage, last_epoch)

\* One statement of the FinalizeBlock arm.  log and out are the
\* instrumentation log and the response before the statement.
FinalizeBlockStmt(stmt, log, out, nextpc) ==
    IF stmt = "load_proposals"
    THEN IF load_proposals_panics(storage, last_epoch)
         THEN /\ pc' = "panicked"
              /\ resp' = PanicOutcome
              /\ fb_log' = log
              /\ UNCHANGED <<storage, proposal_data>>
         ELSE /\ proposal_data' =
                     load_proposals(proposal_data, storage, last_epoch)
              /\ fb_log' = Append(log, "load")
              /\ resp' = out
              /\ pc' = nextpc
              /\ UNCHANGED storage
    ELSE \E ok \in BOOLEAN, txs \in Blocks(storage, last_epoch) :
              /\ storage' = IF ok THEN finalize_block(storage, txs) ELSE storage
              /\ resp' = IF ok THEN OkResponse("FinalizeBlock", DefaultBody)
                         ELSE ErrResponse
              /\ fb_log' = Append(log, "apply")
              /\ pc' = nextpc
              /\ UNCHANGED proposal_data

\* Request::FinalizeBlock is received and the first statement runs.
FinalizeBlock ==
    /\ pc = "idle"
    /\ req' = Request("FinalizeBlock", 0)
    /\ mempool_calls' = <<>>
    /\ FinalizeBlockStmt(FinalizeBlockBody[1], <<>>, NoResp, "finalize_block")
    /\ UNCHANGED last_epoch
    /\ UNCHANGED <<sup_vars, net_vars>>

\* The second statement of the FinalizeBlock arm; its value is returned.
FinalizeBlockReturn ==
    /\ pc = "finalize_block"
    /\ FinalizeBlockStmt(FinalizeBlockBody[2], fb_log, resp, "idle")
    /\ UNCHANGED <<last_epoch, req, mempool_calls>>
    /\ UNCHANGED <<sup_vars, net_vars>>

Commit ==
    /\ pc = "idle"
    /\ req' = Request("Commit", 0)
    /\ \E e \in commit_epochs(last_epoch) : last_epoch' = e
    /\ resp' = OkResponse("Commit", DefaultBody)
    /\ fb_log' = <<>>
    /\ mempool_calls' = <<>>
    /\ UNCHANGED <<storage, proposal_data, pc>>
    /\ UNCHANGED <<sup_vars, net_vars>>

\* The Flush arm wrapping its value in the Echo response.
Flush_answers_Echo ==
    /\ pc = "idle"
    /\ Answer(Request("Flush", 0), OkResponse("Echo", DefaultBody))

Flush ==
    /\ pc = "idle"
    /\ Answer(Request("Flush", 0), OkResponse("Flush", DefaultBody))

\* The Echo arm running the proposal loading step before it answers.
Echo_loads_proposals ==
    /\ pc = "idle"
    /\ \E msg \in Args :
        /\ req' = Request("Echo", msg)
        /\ resp' = OkResponse("Echo", msg)
    /\ proposal_data' = load_proposals(proposal_data, storage, last_epoch)
    /\ fb_log' = <<"load">>
    /\ mempool_calls' = <<>>
    /\ UNCHANGED <<last_epoch, storage, pc>>
    /\ UNCHANGED <<sup_vars, net_vars>>

Echo ==
    /\ pc = "idle"
    /\ \E msg \in Args :
        Answer(Request("Echo", msg), OkResponse("Echo", msg))

CheckTx ==
    /\ pc = "idle"
    /\ \E t \in CheckTxTypeValues, r \in mempool_validate_results :
        /\ req' = Request("CheckTx", t)
        /\ IF CheckTxType_from_i32(t) = NoneType
           THEN /\ pc' = "panicked"
                /\ resp' = PanicOutcome
                /\ mempool_calls' = <<>>
           ELSE /\ pc' = pc
                /\ mempool_calls' = <<MempoolTxType(CheckTxType_from_i32(t))>>
                /\ resp' = OkResponse("CheckTx", r)
    /\ fb_log' = <<>>
    /\ UNCHANGED <<last_epoch, storage, proposal_data>>
    /\ UNCHANGED <<sup_vars, net_vars>>

ListSnapshots ==
    /\ pc = "idle"
    /\ \E a \in Args :
        Answer(Request("ListSnapshots", a),
               OkResponse("ListSnapshots", DefaultBody))

\* The OfferSnapshot arm reporting the missing support as an error.
OfferSnapshot_returns_error ==
    /\ pc = "idle"
    /\ \E a \in Args : Answer(Request("OfferSnapshot", a), ErrResponse)

OfferSnapshot ==
    /\ pc = "idle"
    /\ \E a \in Args :
        Answer(Request("OfferSnapshot", a),
               OkResponse("OfferSnapshot", DefaultBody))

LoadSnapshotChunk ==
    /\ pc = "idle"
    /\ \E a \in Args :
        Answer(Request("LoadSnapshotChunk", a),
               OkResponse("LoadSnapshotChunk", DefaultBody))

ApplySnapshotChunk ==
    /\ pc = "idle"
    /\ \E a \in Args :
        Answer(Request("ApplySnapshotChunk", a),
               OkResponse("ApplySnapshotChunk", DefaultBody))

Next ==
    \/ InitChain
    \/ Info
    \/ Query
    \/ PrepareProposal
    \/ VerifyHeader
    \/ ProcessProposal
    \/ RevertProposal
    \/ FinalizeBlock
    \/ FinalizeBlockReturn
    \/ Commit
    \/ Flush
    \/ Echo
    \/ CheckTx
    \/ ListSnapshots
    \/ OfferSnapshot
    \/ LoadSnapshotChunk
    \/ ApplySnapshotChunk

Spec == Init /\ [][Next]_vars

(***************************************************************************)
(* load_proposals applied to every store: the shell is constructed on a    *)
(* database that holds any proposals (ids are unique: they come from a     *)
(* counter), at any last committed epoch, and FinalizeBlock is requested.  *)
(***************************************************************************)
\* The stores in which every id of 0..MaxLoadId has at most one commit epoch.
Stores ==
    { { get_committing_proposals_key(i, f[i]) : i \in {x \in LoadIds : f[x] >= 0} } :
        f \in [LoadIds -> Epochs \cup {-1}] }

LoadInit ==
    /\ last_epoch \in Epochs
    /\ storage \in Stores
    /\ proposal_data \in SUBSET LoadIds
    /\ pc = "idle"
    /\ req = NoReq
    /\ resp = NoResp
    /\ fb_log = <<>>
    /\ mempool_calls = <<>>
    /\ SupInit
    /\ tendermint_mode = "Validator"
    /\ eth_mode = "Off"
    /\ NetInit

LoadNext == FinalizeBlock

LoadSpec == LoadInit /\ [][LoadNext]_vars

(***************************************************************************)
(* run_aux under every configuration.  The tokio runtime polls every task  *)
(* that can make progress: run_aux itself, a task with an abort request to *)
(* receive, a task that is returning.  That a task ends on its own, that   *)
(* an interrupt arrives or that the shell panics is up to the environment. *)
(***************************************************************************)
SupSpecInit ==
    /\ ShellInit
    /\ SupInit
    /\ tendermint_mode \in TendermintModes
    /\ eth_mode \in EthereumModes
    /\ NetInit

SupSpec == SupSpecInit /\ [][SupNext]_vars

SupFairness ==
    /\ WF_vars(RunAuxStep)
    /\ \A t \in Tasks : WF_vars(TaskHandleAbort(t))
    /\ \A t \in Tasks : WF_vars(TaskFinish(t))
    /\ WF_vars(OracleStops)
    /\ WF_vars(ShellThreadExit)

SupFairSpec == SupSpecInit /\ [][SupNext]_vars /\ SupFairness

(***************************************************************************)
(* Properties of the dispatcher.                                           *)
(***************************************************************************)
\* The step in which load_proposals runs for a FinalizeBlock request.
LoadStep == pc = "idle" /\ pc' = "finalize_block" /\ fb_log' = <<"load">>

\* C1: for every last committed epoch E and every store, load_proposals
\* adds the id of every stored proposal whose commit epoch is exactly E and
\* adds no id of a proposal with another commit epoch, also when the key of
\* that epoch is returned by the prefix scan for E.
C1_LoadExactEpoch ==
    [][LoadStep =>
        \A id \in LoadIds, e \in Epochs :
            get_committing_proposals_key(id, e) \in storage =>
                ((id \in proposal_data') <=>
                    (e = last_epoch \/ id \in proposal_data))]_vars

\* C1 witness: at epoch 1 the scan returned the keys of epochs 1 and 11;
\* the proposal of epoch 1 was loaded, the one of epoch 11 was not.
C1_Witness ==
    /\ pc = "finalize_block"
    /\ last_epoch = 1
    /\ get_committing_proposals_key(0, 1) \in storage
    /\ get_committing_proposals_key(1, 11) \in proposal_iter(storage, 1)
    /\ proposal_data = {0}

C3_LoadThenApply ==
    [][/\ fb_log' \in {<<>>, <<"load">>, <<"load", "apply">>}
       /\ (pc' = "finalize_block" => fb_log' = <<"load">>)
       /\ (storage' # storage =>
             fb_log = <<"load">> /\ fb_log' = <<"load", "apply">>)
       /\ (proposal_data' # proposal_data =>
             pc = "idle" /\ fb_log' = <<"load">>)]_vars

\* C3 witness: a FinalizeBlock that loaded a proposal and then stored one.
C3_Witness ==
    /\ pc = "idle"
    /\ fb_log = <<"load", "apply">>
    /\ resp = OkResponse("FinalizeBlock", DefaultBody)
    /\ storage # {}

\* C4: a call ends in exactly one outcome (none while FinalizeBlock is
\* between its statements), and a success carries the response variant of
\* the request's variant.
C4_ResponseMirrorsRequest ==
    /\ (pc = "idle" /\ req # NoReq) => resp.tag \in {"Ok", "Err"}
    /\ pc = "finalize_block" => resp = NoResp
    /\ pc = "panicked" => resp = PanicOutcome
    /\ req # NoReq => req.kind \in RequestKinds
    /\ resp.tag = "Ok" => resp.variant = req.kind

\* C4 witness: a Flush request answered by the Flush response.
C4_Witness ==
    /\ req.kind = "Flush"
    /\ resp = OkResponse("Flush", DefaultBody)
    /\ pc = "idle"

\* C5: no request makes the dispatcher fail other than by returning
\* Err(Error): the shell thread never panics in a handler.
C5_FailuresAreTyped == resp.tag # "Panic" /\ pc # "panicked"

\* C6: a snapshot request is answered with the default value of its own
\* response type, never with an error, whatever its content, and leaves the
\* chain state and the pending set as they were.
C6_SnapshotDefault ==
    [][req'.kind \in SnapshotKinds =>
        /\ resp' = OkResponse(req'.kind, DefaultBody)
        /\ UNCHANGED <<last_epoch, storage, proposal_data, pc>>]_vars

\* C6 witness: a snapshot request with a non-default content answered in a
\* state with a stored and pending proposal.
C6_Witness ==
    /\ req = Request("OfferSnapshot", 1)
    /\ resp = OkResponse("OfferSnapshot", DefaultBody)
    /\ storage # {}
    /\ proposal_data # {}

\* C7: a CheckTx request is validated exactly once, as NewTransaction when
\* its type is New (0) and as RecheckTransaction when it is Recheck (1); no
\* other request is validated.
C7_CheckTxKind ==
    /\ (req.kind = "CheckTx" /\ pc # "panicked") =>
        /\ Len(mempool_calls) = 1
        /\ req.arg = 0 => mempool_calls[1] = "NewTransaction"
        /\ req.arg = 1 => mempool_calls[1] = "RecheckTransaction"
    /\ req.kind # "CheckTx" => mempool_calls = <<>>

\* C7 witness: a recheck request validated as RecheckTransaction.
C7_Witness ==
    /\ req = Request("CheckTx", 1)
    /\ mempool_calls = <<"RecheckTransaction">>
    /\ resp.tag = "Ok"

\* C8: Info, Query, Echo and Flush leave the last committed epoch, the
\* store and the pending set as they were and do not run the loading step.
C8_ReadOnlyRequests ==
    [][req'.kind \in ReadOnlyKinds =>
        /\ UNCHANGED <<last_epoch, storage, proposal_data, pc>>
        /\ fb_log' = <<>>]_vars

\* C8 witness: a Query answered from a store with a proposal that is due at
\* the last committed epoch and not pending.
C8_Witness ==
    /\ req.kind = "Query"
    /\ resp = OkResponse("Query", 1)
    /\ get_committing_proposals_key(0, last_epoch) \in storage
    /\ proposal_data = {}

(***************************************************************************)
(* Properties of run_aux.                                                  *)
(***************************************************************************)
Joined(t) == task_status[t] = "finished"

Abortable(t) == task_kind[t] = "abortable"

\* C9: once run_aux has gone past the join of the task handles, every one
\* of the five supervised tasks has run to completion, whatever the outcome
\* of each of them.
C9_AllTasksJoined ==
    ra_pc \in {"join_shell", "done", "panicked"} => \A t \in Tasks : Joined(t)

\* A supervised task has ended on its own or an interrupt has arrived.
ShutdownTriggered ==
    \/ \E t \in Tasks : Abortable(t) /\ Joined(t)
    \/ aborted = "user_shutdown"

\* The shutdown signal has fired, the cleanup job of every supervised task
\* has run and all five tasks have terminated.
TornDown ==
    /\ aborted # "none"
    /\ \A t \in Tasks : Abortable(t) => cleanup_runs[t] >= 1
    /\ \A t \in Tasks : Joined(t)

C11_CleanupExactlyOnce ==
    /\ \A t \in Tasks : cleanup_runs[t] <= 1
    /\ aborted = "none" => \A t \in Tasks : cleanup_runs[t] = 0
    /\ ra_pc \in {"try_join", "join_shell", "done", "panicked"}
          => /\ aborted # "none"
             /\ \A t \in Tasks :
                  cleanup_runs[t] = IF Abortable(t) THEN 1 ELSE 0

\* An interrupt ended wait_for_abort, two tasks or more have sent their
\* abort message as well, one of them before its cleanup job ran, and the
\* teardown is over.
C11_Witness ==
    /\ ra_pc = "done"
    /\ aborted = "user_shutdown"
    /\ Cardinality(abort_queue) >= 2
    /\ abort_chan["Tendermint"] = "rx_dropped"
    /\ \A t \in Tasks : Abortable(t) => cleanup_runs[t] = 1

\* C12: the shell thread is joined only after all supervised tasks have
\* been awaited: once run_aux has joined the shell thread, no supervised
\* task is still running.
C12_ShellJoinedAfterTasks ==
    ra_pc \in {"done", "panicked"}
        => \A t \in Tasks : task_status[t] \notin {"running", "stopping"}

\* C13: the cache of the database outlives the shell: at no point is the
\* cache handle created at start-up dropped while the shell thread is still
\* running.
C13_CacheOutlivesShell == shell_thread = "running" => db_cache = "live"

\* The cleanup job of the i-th spawned abortable task has finished.
CleanupFinished(i) ==
    i < cleanup_i \/ ra_pc \in {"try_join", "join_shell", "done", "panicked"}

\* C14: the cleanup job of a task that manages a process follows the
\* handshake.  A reply channel exists only once the job has sent the abort
\* request; the job awaits only a request that was delivered; and it has
\* finished only if the request could not be delivered, or the reply has
\* arrived, or the reply channel is closed, which is then logged and does
\* not stop the teardown.
C14_CleanupHandshake ==
    \A i \in 1..Len(cleanup_jobs) :
        LET t == cleanup_jobs[i]
        IN  HasHandshake(t) =>
              /\ resp_chan[t] # "none" => cleanup_runs[t] = 1
              /\ (cleanup_wait /\ cleanup_i = i)
                    => /\ cleanup_runs[t] = 1
                       /\ abort_chan[t] # "open"
                       /\ resp_chan[t] # "none"
              /\ (cleanup_runs[t] = 1 /\ CleanupFinished(i))
                    => \/ resp_chan[t] = "none" /\ abort_chan[t] = "rx_dropped"
                       \/ resp_chan[t] = "acked"
                       \/ /\ resp_chan[t] = "closed"
                          /\ LogEntry("no response", t) \in logged

\* The Tendermint task took the abort request and returned without sending
\* the reply; its cleanup job logged it and the teardown went on to the end.
C14_Witness ==
    /\ ra_pc = "done"
    /\ abort_chan["Tendermint"] = "received"
    /\ resp_chan["Tendermint"] = "closed"
    /\ LogEntry("no response", "Tendermint") \in logged
    /\ resp_chan["Ethereum"] = "acked"

\* The errors of tasks that were logged, by run_aux or by the task itself.
TaskErrorsLogged == { l \in logged : l.msg \in {"task error", "own error"} }

\* C15: once run_aux is past the join of the task handles, the errors that
\* tasks returned are logged according to the kind of abort: after an
\* interrupt no error of a task is logged, and after the end of a managed
\* task the errors returned by the Tendermint and ABCI tasks are logged.
C15_ErrorLogPolicy ==
    ra_pc \in {"join_shell", "done", "panicked"} =>
        /\ aborted = "user_shutdown" => TaskErrorsLogged = {}
        /\ aborted = "child_terminated" =>
              \A t \in {"Tendermint", "ABCI"} :
                  task_result[t] = "err" => LogEntry("task error", t) \in logged

(***************************************************************************)
(* run_abci: the ABCI server.  split::service gives one lane per category  *)
(* of requests into the shell, each with room for SplitBound requests; the *)
(* shell is handed the requests of the lanes by priority and handles one   *)
(* request at a time.  The consensus and snapshot services are handed to   *)
(* the server as they are: a request waits until its lane has room.        *)
(***************************************************************************)
MaxConsensus == 6

SplitBound == 5

\* The order in which the lanes are served.
LanePriority == <<"consensus", "mempool", "snapshot", "info">>

AbciRequest(l, n) == [lane |-> l, id |-> n]

\* A lane is ready when it has room.
lane_ready(l) == Len(lane_q[l]) < SplitBound

lane_send(l, n) == lane_q' = [lane_q EXCEPT ![l] = Append(@, n)]

dequeue_newest(q) == <<q[Len(q)], SubSeq(q, 1, Len(q) - 1)>>

\* The request a queue gives out and the queue it leaves.
dequeue(q) == <<Head(q), Tail(q)>>

\* The server reads the next consensus request of the connection: the
\* requests are numbered in the order of their delivery.
ConsensusDeliver ==
    /\ cons_delivered < MaxConsensus
    /\ cons_delivered' = cons_delivered + 1
    /\ cons_wait' = Append(cons_wait, cons_delivered + 1)
    /\ UNCHANGED <<lane_q, disp_cur, cons_started, cons_answered>>
    /\ UNCHANGED <<shell_vars, sup_vars, relay_vars, mempool_vars, info_vars,
                   eth_vars>>

ConsensusAccept_load_shed ==
    /\ cons_wait # <<>>
    /\ cons_wait' = Tail(cons_wait)
    /\ IF lane_ready("consensus")
       THEN lane_send("consensus", Head(cons_wait))
       ELSE UNCHANGED lane_q
    /\ UNCHANGED <<cons_delivered, disp_cur, cons_started, cons_answered>>
    /\ UNCHANGED <<shell_vars, sup_vars, relay_vars, mempool_vars, info_vars,
                   eth_vars>>

\* The consensus service is called with the oldest waiting request once
\* its lane is ready.
ConsensusAccept ==
    /\ cons_wait # <<>>
    /\ lane_ready("consensus")
    /\ cons_wait' = Tail(cons_wait)
    /\ lane_send("consensus", Head(cons_wait))
    /\ UNCHANGED <<cons_delivered, disp_cur, cons_started, cons_answered>>
    /\ UNCHANGED <<shell_vars, sup_vars, relay_vars, mempool_vars, info_vars,
                   eth_vars>>

\* A request of another category passes the layers in front of its lane.
OtherLaneLoad(l) ==
    /\ l # "consensus"
    /\ lane_ready(l)
    /\ lane_send(l, 0)
    /\ UNCHANGED <<cons_delivered, cons_wait, disp_cur, cons_started,
                   cons_answered>>
    /\ UNCHANGED <<shell_vars, sup_vars, relay_vars, mempool_vars, info_vars,
                   eth_vars>>

\* The first lane, in the order of priority, that holds a request.
first_lane ==
    LET i == CHOOSE k \in 1..Len(LanePriority) :
                 /\ lane_q[LanePriority[k]] # <<>>
                 /\ \A j \in 1..(k - 1) : lane_q[LanePriority[j]] = <<>>
    IN  LanePriority[i]

\* The shell, when it handles no request, takes the next one.
DispatcherTake ==
    /\ disp_cur = {}
    /\ \E l \in Lanes : lane_q[l] # <<>>
    /\ LET l == first_lane
           d == dequeue(lane_q[l])
       IN  /\ lane_q' = [lane_q EXCEPT ![l] = d[2]]
           /\ disp_cur' = disp_cur \cup {AbciRequest(l, d[1])}
           /\ cons_started' = IF l = "consensus"
                              THEN Append(cons_started, d[1])
                              ELSE cons_started
    /\ UNCHANGED <<cons_delivered, cons_wait, cons_answered>>
    /\ UNCHANGED <<shell_vars, sup_vars, relay_vars, mempool_vars, info_vars,
                   eth_vars>>

\* Shell::call returns and the response is sent.
DispatcherRespond ==
    /\ \E r \in disp_cur :
          /\ disp_cur' = disp_cur \ {r}
          /\ cons_answered' = IF r.lane = "consensus"
                               THEN Append(cons_answered, r.id)
                               ELSE cons_answered
    /\ UNCHANGED <<cons_delivered, cons_wait, lane_q, cons_started>>
    /\ UNCHANGED <<shell_vars, sup_vars, relay_vars, mempool_vars, info_vars,
                   eth_vars>>

LaneNext ==
    \/ ConsensusDeliver
    \/ ConsensusAccept
    \/ \E l \in Lanes : OtherLaneLoad(l)
    \/ DispatcherTake
    \/ DispatcherRespond

LaneSpecInit ==
    /\ ShellInit
    /\ SupInit
    /\ tendermint_mode = "Validator"
    /\ eth_mode = "Off"
    /\ NetInit

LaneSpec == LaneSpecInit /\ [][LaneNext]_vars

\* The server and the shell thread run whenever they can; what arrives is
\* up to the clients.
LaneFairness ==
    /\ WF_vars(ConsensusAccept)
    /\ WF_vars(DispatcherTake)
    /\ WF_vars(DispatcherRespond)

LaneFairSpec == LaneSpecInit /\ [][LaneNext]_vars /\ LaneFairness

(***************************************************************************)
(* The layers of the mempool service: load_shed over buffer(1024).  A      *)
(* request that finds the buffer ready is queued in it; one that finds it  *)
(* full is answered at once with the error of load_shed.  The worker of    *)
(* the buffer hands the queued requests on to the mempool lane.            *)
(***************************************************************************)
MempoolBuffer == 1024

buffer_ready_one_less(n, bound) == n < bound - 1

\* Buffer::poll_ready: there is room for one more request.
buffer_ready(n, bound) == n < bound

CheckTxArrive ==
    /\ IF buffer_ready(mp_q, MempoolBuffer)
       THEN /\ mp_q' = mp_q + 1
            /\ mp_last' = "queued"
       ELSE /\ mp_q' = mp_q
            /\ mp_last' = "shed"
    /\ UNCHANGED <<shell_vars, sup_vars, relay_vars, lane_vars, info_vars,
                   eth_vars>>

MempoolForward ==
    /\ mp_q > 0
    /\ mp_q' = mp_q - 1
    /\ UNCHANGED mp_last
    /\ UNCHANGED <<shell_vars, sup_vars, relay_vars, lane_vars, info_vars,
                   eth_vars>>

MempoolNext == CheckTxArrive \/ MempoolForward

MempoolSpec == LaneSpecInit /\ [][MempoolNext]_vars

(***************************************************************************)
(* The layers of the info service: load_shed over buffer(100) over         *)
(* rate_limit(50, 1 s).  The worker of the buffer hands a queued request   *)
(* to the rate limiter when the limiter is ready.  Time advances by half   *)
(* seconds.                                                                *)
(***************************************************************************)
InfoBuffer == 100

RateNum == 50

TicksPerSecond == 2

InfoArrive ==
    /\ IF buffer_ready(info_q, InfoBuffer)
       THEN /\ info_q' = info_q + 1
            /\ info_last' = "queued"
       ELSE /\ info_q' = info_q
            /\ info_last' = "shed"
    /\ UNCHANGED <<rate_limit, passed, period_passed>>
    /\ UNCHANGED <<shell_vars, sup_vars, relay_vars, lane_vars, mempool_vars,
                   eth_vars>>

\* RateLimit::poll_ready: a limiter that sleeps wakes up when its period
\* has ended, and a new period starts.
rate_limit_poll(r) ==
    IF r.state = "Limited"
    THEN [state |-> "Ready", rem |-> RateNum, left |-> TicksPerSecond]
    ELSE r

rate_limit_call_keeps_going(r) ==
    IF r.left = 0
    THEN [state |-> "Ready", rem |-> RateNum - 1, left |-> TicksPerSecond]
    ELSE [r EXCEPT !.rem = IF @ > 1 THEN @ - 1 ELSE @]

\* RateLimit::call: a period that has ended is started again; the request
\* uses one of what remains of the period, and the last one of them puts
\* the limiter to sleep until the end of the period.
rate_limit_call(r) ==
    LET p == IF r.left = 0
             THEN [state |-> "Ready", rem |-> RateNum, left |-> TicksPerSecond]
             ELSE r
    IN  IF p.rem > 1
        THEN [p EXCEPT !.rem = @ - 1]
        ELSE [p EXCEPT !.state = "Limited", !.rem = 0]

\* The limiter is ready, or its sleep is over.
rate_limit_ready(r) == r.state = "Ready" \/ r.left = 0

\* The worker of the buffer passes the oldest request through the rate
\* limiter to the info lane.
InfoForward ==
    /\ info_q > 0
    /\ rate_limit_ready(rate_limit)
    /\ info_q' = info_q - 1
    /\ rate_limit' = rate_limit_call(rate_limit_poll(rate_limit))
    /\ passed' = <<passed[1], passed[2] + 1>>
    /\ period_passed' = IF rate_limit.left = 0 THEN 1 ELSE period_passed + 1
    /\ UNCHANGED info_last
    /\ UNCHANGED <<shell_vars, sup_vars, relay_vars, lane_vars, mempool_vars,
                   eth_vars>>

\* Half a second goes by.
Tick ==
    /\ rate_limit' = [rate_limit EXCEPT !.left = IF @ > 0 THEN @ - 1 ELSE 0]
    /\ passed' = <<passed[2], 0>>
    /\ UNCHANGED <<info_q, info_last, period_passed>>
    /\ UNCHANGED <<shell_vars, sup_vars, relay_vars, lane_vars, mempool_vars,
                   eth_vars>>

InfoNext == InfoArrive \/ InfoForward \/ Tick

InfoSpec == LaneSpecInit /\ [][InfoNext]_vars

(***************************************************************************)
(* The channel of maybe_start_ethereum_oracle: a bounded queue of          *)
(* ORACLE_CHANNEL_BUFFER_SIZE events between the oracle, or the events     *)
(* endpoint, and the shell.  The events are numbered modulo MaxEventId + 1.*)
(***************************************************************************)
ORACLE_CHANNEL_BUFFER_SIZE == 1000

eth_rest == <<shell_vars, sup_vars, relay_vars, lane_vars, mempool_vars,
              info_vars>>

OracleSend_try_send ==
    /\ eth_rx = "alive"
    /\ ~eth_blocked
    /\ eth_chan' = IF Len(eth_chan) < ORACLE_CHANNEL_BUFFER_SIZE
                   THEN Append(eth_chan, eth_next)
                   ELSE eth_chan
    /\ eth_next' = next_event(eth_next)
    /\ UNCHANGED <<eth_blocked, eth_received, eth_rx, eth_rest>>

\* The oracle sends its next event: the event is queued if the channel has
\* room, and the oracle waits in the send if the channel is full.
OracleSend ==
    /\ eth_rx = "alive"
    /\ ~eth_blocked
    /\ IF Len(eth_chan) < ORACLE_CHANNEL_BUFFER_SIZE
       THEN /\ eth_chan' = Append(eth_chan, eth_next)
            /\ eth_next' = next_event(eth_next)
            /\ UNCHANGED eth_blocked
       ELSE /\ eth_blocked' = TRUE
            /\ UNCHANGED <<eth_chan, eth_next>>
    /\ UNCHANGED <<eth_received, eth_rx, eth_rest>>

\* The send of a waiting oracle completes once the channel has room.
OracleSendResumes ==
    /\ eth_rx = "alive"
    /\ eth_blocked
    /\ Len(eth_chan) < ORACLE_CHANNEL_BUFFER_SIZE
    /\ eth_chan' = Append(eth_chan, eth_next)
    /\ eth_next' = next_event(eth_next)
    /\ eth_blocked' = FALSE
    /\ UNCHANGED <<eth_received, eth_rx, eth_rest>>

\* The shell takes the oldest event of the channel.
ShellReceivesEvent ==
    /\ eth_rx = "alive"
    /\ eth_chan # <<>>
    /\ eth_received' = Head(eth_chan)
    /\ eth_chan' = Tail(eth_chan)
    /\ UNCHANGED <<eth_next, eth_blocked, eth_rx, eth_rest>>

\* The shell ends and drops the receiver: the events in the channel are
\* gone and a send that waits fails.
ShellDropsReceiver ==
    /\ eth_rx = "alive"
    /\ eth_rx' = "dropped"
    /\ eth_chan' = <<>>
    /\ eth_blocked' = FALSE
    /\ UNCHANGED <<eth_next, eth_received, eth_rest>>

OracleNext ==
    \/ OracleSend
    \/ OracleSendResumes
    \/ ShellReceivesEvent
    \/ ShellDropsReceiver

OracleSpec == LaneSpecInit /\ [][OracleNext]_vars

(***************************************************************************)
(* The oracle bridge: run_aux up to the start of the shell, under every    *)
(* configuration, with the oracle-side task sending events, the shell      *)
(* receiving them and sending commands on the control channel, and the     *)
(* oracle-side task ending.  A send on a channel succeeds while the other  *)
(* end is held by a task that runs.                                        *)
(***************************************************************************)
oracle_side_runs ==
    /\ task_kind["Oracle"] \in {"plain", "abortable"}
    /\ task_status["Oracle"] = "running"

\* The oracle, or the events endpoint, sends an event on its sender.
BridgeOracleSend ==
    /\ eth_sender = "Oracle"
    /\ oracle_side_runs
    /\ OracleSend

BridgeOracleSendResumes ==
    /\ eth_sender = "Oracle"
    /\ oracle_side_runs
    /\ OracleSendResumes

\* The shell polls the receiver of its oracle handle, if it has one.
BridgeShellReceives ==
    /\ shell_thread = "running"
    /\ eth_oracle = "Some"
    /\ eth_receiver = "shell"
    /\ ShellReceivesEvent

\* The shell sends a command on the control sender of its oracle handle.
ShellSendsCommand ==
    /\ shell_thread = "running"
    /\ eth_oracle = "Some"
    /\ control_sender = "shell"
    /\ control_last' = IF control_receiver = "Oracle" /\ oracle_side_runs
                       THEN "delivered"
                       ELSE "no receiver"
    /\ UNCHANGED <<bc_chan, bc_next, bc_submitted, bc_lost>>
    /\ UNCHANGED <<shell_vars, sup_vars, lane_vars, mempool_vars, info_vars,
                   eth_vars>>

BridgeNext ==
    \/ StartTendermint
    \/ MaybeStartGeth
    \/ MaybeStartEthereumOracle
    \/ StartAbciBroadcasterShell
    \/ BridgeOracleSend
    \/ BridgeOracleSendResumes
    \/ BridgeShellReceives
    \/ ShellSendsCommand
    \/ TaskExit("Oracle")

BridgeSpec == SupSpecInit /\ [][BridgeNext]_vars

(***************************************************************************)
(* The broadcaster: run_aux of a node without an oracle, with the shell    *)
(* sending protocol transactions, numbered in the order of their sending,  *)
(* on the unbounded channel, and the broadcaster submitting them.  A task  *)
(* of Tendermint or of the ABCI server may end on its own; the broadcaster *)
(* runs until its cleanup job tells it to stop.                            *)
(***************************************************************************)
MaxTx == 3

\* The receiver is alive while the task that owns it has not returned.
broadcaster_receiver_live ==
    /\ broadcaster_receiver = "Broadcaster"
    /\ task_status["Broadcaster"] \in {"running", "stopping"}

bc_rest == <<shell_vars, lane_vars, mempool_vars, info_vars, eth_vars,
             control_last, tendermint_mode, eth_mode, ra_pc, task_kind,
             aborted, cleanup_jobs, cleanup_i, cleanup_wait, cleanup_runs,
             abort_chan, resp_chan, shell_thread, db_cache, wiring_vars>>

\* The shell sends a protocol transaction: it is queued if the receiver is
\* alive, and the send fails if it is not.
ShellSendsProtocolTx ==
    /\ shell_thread = "running"
    /\ broadcaster_sender = "shell"
    /\ bc_next <= MaxTx
    /\ IF broadcaster_receiver_live
       THEN bc_chan' = Append(bc_chan, bc_next) /\ UNCHANGED bc_lost
       ELSE bc_lost' = bc_lost + 1 /\ UNCHANGED bc_chan
    /\ bc_next' = bc_next + 1
    /\ UNCHANGED <<bc_submitted, task_status, task_result, abort_queue,
                   logged, bc_rest>>

Submission(tx, ok) == [tx |-> tx, ok |-> ok]

BroadcasterSubmit_stops_on_failure ==
    /\ task_kind["Broadcaster"] = "abortable"
    /\ task_status["Broadcaster"] = "running"
    /\ bc_chan # <<>>
    /\ \E ok \in BOOLEAN :
          /\ bc_submitted' = Append(bc_submitted, Submission(Head(bc_chan), ok))
          /\ logged' = IF ok THEN logged
                       ELSE logged \cup {LogEntry("submission failed",
                                                  "Broadcaster")}
          /\ task_status' = IF ok THEN task_status
                            ELSE [task_status EXCEPT
                                     !["Broadcaster"] = "finished"]
          /\ task_result' = IF ok THEN task_result
                            ELSE [task_result EXCEPT !["Broadcaster"] = "ok"]
          /\ abort_queue' = IF ok THEN abort_queue
                            ELSE drop_aborter(abort_queue, "Broadcaster")
    /\ bc_chan' = Tail(bc_chan)
    /\ UNCHANGED <<bc_next, bc_lost, bc_rest>>

\* The broadcaster takes the oldest transaction of the channel and submits
\* it to Tendermint; a submission that fails is logged and the broadcaster
\* goes on.
BroadcasterSubmit ==
    /\ task_kind["Broadcaster"] = "abortable"
    /\ task_status["Broadcaster"] = "running"
    /\ bc_chan # <<>>
    /\ \E ok \in BOOLEAN :
          /\ bc_submitted' = Append(bc_submitted, Submission(Head(bc_chan), ok))
          /\ logged' = IF ok THEN logged
                       ELSE logged \cup {LogEntry("submission failed",
                                                  "Broadcaster")}
    /\ bc_chan' = Tail(bc_chan)
    /\ UNCHANGED <<bc_next, bc_lost, task_status, task_result, abort_queue,
                   bc_rest>>

BroadcasterNext ==
    \/ RunAuxStep
    \/ WaitForAbortInterrupt
    \/ \E t \in {"Tendermint", "ABCI"} : TaskExit(t)
    \/ \E t \in Tasks : TaskHandleAbort(t)
    \/ \E t \in Tasks : TaskFinish(t)
    \/ ShellThreadExit
    \/ ShellThreadPanic
    \/ ShellSendsProtocolTx
    \/ BroadcasterSubmit

BroadcasterSpecInit ==
    /\ ShellInit
    /\ SupInit
    /\ tendermint_mode \in TendermintModes
    /\ eth_mode = "Off"
    /\ NetInit

BroadcasterSpec == BroadcasterSpecInit /\ [][BroadcasterNext]_vars

(***************************************************************************)
(* Properties of the ABCI server.                                          *)
(***************************************************************************)
Range(q) == { q[i] : i \in 1..Len(q) }

\* Where the consensus request number n is.
ConsensusPlaces(n) ==
    (IF n \in Range(cons_wait) THEN {"waiting"} ELSE {})
    \cup (IF n \in Range(lane_q["consensus"]) THEN {"lane"} ELSE {})
    \cup (IF AbciRequest("consensus", n) \in disp_cur THEN {"shell"} ELSE {})
    \cup (IF n \in Range(cons_answered) THEN {"answered"} ELSE {})

\* Every consensus request that was delivered is in one place: it waits for
\* its lane, or is in its lane, or is handled by the shell, or is answered.
NoConsensusRequestShed ==
    \A n \in 1..cons_delivered : Cardinality(ConsensusPlaces(n)) = 1

\* Some consensus request that was delivered is not yet answered.
ConsensusPending == Range(cons_answered) # 1..cons_delivered

C17_ConsensusInOrder ==
    /\ Cardinality(disp_cur) <= 1
    /\ cons_started = [i \in 1..Len(cons_started) |-> i]
    /\ Len(cons_answered) <= Len(cons_started)
    /\ Len(cons_started) <= Len(cons_answered) + 1
    /\ cons_answered = SubSeq(cons_started, 1, Len(cons_answered))

\* Two consensus requests have been answered, a third is in its lane behind
\* a fourth that waits, and the shell is handling a request of the mempool.
C17_Witness ==
    /\ Len(cons_answered) >= 2
    /\ Len(lane_q["consensus"]) >= 2
    /\ disp_cur = {AbciRequest("mempool", 0)}

(***************************************************************************)
(* Properties of the layers in front of the lanes.                         *)
(***************************************************************************)
\* A CheckTx request arrives while the buffer has room: it is queued.
CheckTxQueued ==
    /\ mp_q < MempoolBuffer
    /\ mp_q' = mp_q + 1
    /\ mp_last' = "queued"

\* A CheckTx request arrives while the buffer holds MempoolBuffer requests:
\* it is answered with the load-shedding response and the buffer is as it
\* was.
CheckTxShed ==
    /\ mp_q = MempoolBuffer
    /\ mp_q' = mp_q
    /\ mp_last' = "shed"

\* The buffer gives its oldest request to the lane.
CheckTxHandedOn ==
    /\ mp_q' = mp_q - 1
    /\ mp_last' = mp_last

\* C18: the mempool lane sheds only on overflow of its queue of 1024
\* requests.  The queue never holds more; a CheckTx request that arrives
\* while fewer than 1024 are pending is queued, whatever came before it;
\* one that arrives while 1024 are pending is answered with the
\* load-shedding response, without being queued and without waiting; and a
\* request leaves the queue only by being handed on.
C18_MempoolShedsOnOverflow ==
    /\ [](mp_q <= MempoolBuffer)
    /\ [][CheckTxQueued \/ CheckTxShed \/ CheckTxHandedOn]_mempool_vars

\* The buffer is full of requests that were not handed on, and the request
\* that arrived last was shed.
C18_Witness ==
    /\ mp_q = MempoolBuffer
    /\ mp_last = "shed"

\* The number of requests the rate limiter let through in the last second.
PassedInLastSecond == passed[1] + passed[2]

\* C19 as the spec states it: the info lane holds at most 100 queued
\* requests and lets at most 50 requests through in any one-second window.
C19_InfoLaneLimits ==
    /\ info_q <= InfoBuffer
    /\ PassedInLastSecond <= RateNum

\* An info request arrives while the buffer has room: it is queued.
InfoQueued ==
    /\ info_q < InfoBuffer
    /\ info_q' = info_q + 1
    /\ info_last' = "queued"
    /\ UNCHANGED <<rate_limit, passed, period_passed>>

\* An info request arrives while the buffer holds InfoBuffer requests: it
\* is answered with the load-shedding response.
InfoShed ==
    /\ info_q = InfoBuffer
    /\ info_q' = info_q
    /\ info_last' = "shed"
    /\ UNCHANGED <<rate_limit, passed, period_passed>>

\* The oldest request goes through the rate limiter, which was ready.
InfoHandedOn ==
    /\ rate_limit.state = "Ready" \/ rate_limit.left = 0
    /\ info_q' = info_q - 1
    /\ info_last' = info_last

\* Time goes by and the queue is as it was.
InfoTimePasses == UNCHANGED <<info_q, info_last, period_passed>>

\* C19, amended: the info lane holds at most 100 queued requests and sheds
\* a request that arrives while 100 are queued, without waiting.  The rate
\* limiter lets at most 50 requests through in each of its periods, a
\* period being the second that begins with the first request let through
\* after the previous period has ended; a one-second window that lies
\* across two periods sees fewer than 100 requests.
C19_InfoLaneLimitsPerPeriod ==
    /\ [](info_q <= InfoBuffer)
    /\ [](period_passed <= RateNum)
    /\ [](PassedInLastSecond < 2 * RateNum)
    /\ [][InfoQueued \/ InfoShed \/ InfoHandedOn \/ InfoTimePasses]_info_vars

\* The buffer is full and the latest request was shed; the limiter sleeps,
\* having let through all 50 requests of its period in this half second,
\* after requests of the period before in the previous half second.
C19_Witness ==
    /\ info_q = InfoBuffer
    /\ info_last = "shed"
    /\ rate_limit.state = "Limited"
    /\ period_passed = RateNum
    /\ PassedInLastSecond > RateNum

(***************************************************************************)
(* Properties of the channel of the oracle.                                *)
(***************************************************************************)
\* The events of the channel are those that follow the event the shell
\* received last, in the order of their numbers, up to the next event of
\* the oracle.
InOrderFrom(q, n) ==
    /\ \A i \in 1..Len(q) : q[i] = (n + i - 1) % (MaxEventId + 1)
    /\ eth_next = (n + Len(q)) % (MaxEventId + 1)

\* C20: while the shell holds the receiver, the channel never holds more
\* than 1000 events and no event is lost, repeated or overtaken, also when
\* the oracle finds the channel full and waits: what the channel holds is
\* exactly what was sent and not yet received, in the order sent, and the
\* event the oracle waits with is the one that follows them.
C20_OracleChannel ==
    eth_rx = "alive" =>
        /\ Len(eth_chan) <= ORACLE_CHANNEL_BUFFER_SIZE
        /\ InOrderFrom(eth_chan, next_event(eth_received))

\* The oracle has filled the channel and waits in a send while the shell
\* has received events.
C20_Witness ==
    /\ eth_rx = "alive"
    /\ eth_blocked
    /\ Len(eth_chan) = ORACLE_CHANNEL_BUFFER_SIZE
    /\ eth_received = 1

\* What run_aux and the shell hold once maybe_start_ethereum_oracle has
\* returned and once the shell has been built.
OracleStepDone ==
    ra_pc \in {"start_abci_broadcaster_shell", "wait_for_abort"}

ShellBuilt == ra_pc = "wait_for_abort"

\* C21: in the mode Off the oracle task is a dummy that has completed when
\* maybe_start_ethereum_oracle returns, with no shutdown signal fired, run_aux
\* gets no oracle handle, the shell is built with none and holds neither the
\* receiver of the events nor the sender of the commands, and no event is
\* ever queued for it or received by it; in each of the other three modes
\* run_aux gets an oracle handle and the shell is built with it.
C21_DisabledOracle ==
    OracleStepDone =>
        IF eth_mode = "Off"
        THEN /\ task_kind["Oracle"] = "dummy"
             /\ task_status["Oracle"] = "finished"
             /\ aborted = "none"
             /\ eth_oracle_comms = "None"
             /\ eth_receiver = "dropped" /\ control_sender = "dropped"
             /\ eth_chan = <<>> /\ eth_received = MaxEventId
             /\ control_last = "none"
             /\ ShellBuilt => eth_oracle = "None"
        ELSE /\ eth_oracle_comms = "Some"
             /\ ShellBuilt => /\ eth_oracle = "Some"
                              /\ eth_receiver = "shell"
                              /\ control_sender = "shell"

\* The shell of a full node with the oracle off runs, built with no oracle
\* handle, and the dummy task of the oracle has completed.
C21_Witness ==
    /\ eth_mode = "Off" /\ tendermint_mode = "Full"
    /\ shell_thread = "running" /\ eth_oracle = "None"
    /\ task_kind["Oracle"] = "dummy" /\ task_status["Oracle"] = "finished"

\* C22: in the mode Managed, under every mode of the node, an oracle that
\* has been started has a managed Ethereum node behind it: the task of the
\* node has been spawned through the spawner and the node had reported
\* itself synced before the oracle was started.
C22_ManagedOracleAfterSync ==
    (eth_mode = "Managed" /\ task_kind["Oracle"] = "plain") =>
        /\ geth = "synced"
        /\ task_kind["Ethereum"] = "abortable"

\* The tasks that run for as long as the node does.
LongLived(t) == task_kind[t] \in {"abortable", "plain"}

\* C23: every long-lived task that has been started was spawned through the
\* spawner: it owns an Aborter, so that its end sends the abort message, and
\* its cleanup job is registered, so that the shutdown reaches it.
C23_AllTasksSupervised ==
    \A t \in Tasks :
        LongLived(t) =>
            /\ task_kind[t] = "abortable"
            /\ \E i \in 1..Len(cleanup_jobs) : cleanup_jobs[i] = t
            /\ task_status[t] = "finished" =>
                   (t \in abort_queue \/ aborted # "none")

\* C24: in every mode with an oracle, once the shell is built it holds the
\* receiver of the events and the sender of the commands, the oracle-side
\* task holds the sender of the events and the receiver of the commands,
\* and no command of the shell has found the control channel without a
\* receiver while the oracle-side task runs.
C24_ChannelEndsHeld ==
    (ShellBuilt /\ eth_mode # "Off") =>
        /\ eth_receiver = "shell" /\ control_sender = "shell"
        /\ eth_sender = "Oracle" /\ control_receiver = "Oracle"
        /\ oracle_side_runs => control_last # "no receiver"

\* C25: once start_abci_broadcaster_shell has returned, the broadcaster is
\* a task of the spawner exactly if the node is a validator; on a full node
\* or a seed node its place is taken by a dummy task that has completed,
\* that has no cleanup job, and nothing is ever submitted: every protocol
\* transaction the shell sends finds no receiver.
C25_BroadcasterIffValidator ==
    ShellBuilt =>
        IF tendermint_mode = "Validator"
        THEN /\ task_kind["Broadcaster"] = "abortable"
             /\ broadcaster_receiver = "Broadcaster"
        ELSE /\ task_kind["Broadcaster"] = "dummy"
             /\ task_status["Broadcaster"] = "finished"
             /\ \A i \in 1..Len(cleanup_jobs) :
                    cleanup_jobs[i] # "Broadcaster"
             /\ "Broadcaster" \notin abort_queue
             /\ bc_submitted = <<>> /\ bc_chan = <<>>
             /\ bc_lost = bc_next - 1

\* The shell of a full node has sent all its protocol transactions.
C25_Witness ==
    /\ tendermint_mode = "Full"
    /\ task_kind["Broadcaster"] = "dummy"
    /\ bc_lost = MaxTx

\* The transactions that were submitted, in the order of their submission.
submitted_txs == [i \in 1..Len(bc_submitted) |-> bc_submitted[i].tx]

\* C26: on a validator the transactions the broadcaster has submitted,
\* followed by those that wait in the channel, are the transactions the
\* shell queued, in the order of their queueing, whatever the outcomes of
\* the submissions; and the broadcaster has stopped only if it received
\* the abort request that its cleanup job sends after the shutdown signal.
C26_BroadcastInOrder ==
    (ShellBuilt /\ tendermint_mode = "Validator") =>
        /\ LET txs == submitted_txs \o bc_chan
           IN  /\ \A i \in 1..Len(txs) : txs[i] = i
               /\ Len(txs) = bc_next - 1 - bc_lost
        /\ task_status["Broadcaster"] # "running" =>
               /\ abort_chan["Broadcaster"] = "received"
               /\ aborted # "none"
        /\ bc_lost > 0 => task_status["Broadcaster"] = "finished"

\* The three transactions were submitted in their order, the second one
\* failed, and the broadcaster still runs.
C26_Witness ==
    /\ bc_submitted = <<Submission(1, TRUE), Submission(2, FALSE),
                        Submission(3, TRUE)>>
    /\ task_status["Broadcaster"] = "running"

\* C27: the loading step of FinalizeBlock is idempotent: load_proposals run
\* again on the pending set it has just produced, with the same store and
\* the same last committed epoch, leaves that set as it is, and run on the
\* empty pending set of a restarted node it loads nothing that the first
\* run has not loaded.
C27_LoadIdempotent ==
    [][LoadStep =>
        /\ load_proposals(proposal_data', storage', last_epoch')
              = proposal_data'
        /\ load_proposals({}, storage', last_epoch') \subseteq proposal_data'
        /\ storage' = storage /\ last_epoch' = last_epoch]_vars

\* The load has added the proposal of epoch 1 to a pending set that held
\* another id, with a key of epoch 11 in the scan.
C27_Witness ==
    /\ pc = "finalize_block"
    /\ fb_log = <<"load">>
    /\ last_epoch = 1
    /\ get_committing_proposals_key(1, 1) \in storage
    /\ get_committing_proposals_key(0, 11) \in storage
    /\ proposal_data = {0, 1}

\* A FinalizeBlock request has been answered with the typed error.
FinalizeBlockFailed ==
    pc = "idle" /\ req.kind = "FinalizeBlock" /\ resp.tag = "Err"

FallibleKinds == {"InitChain", "FinalizeBlock"}

\* C29: the typed error is returned to InitChain and FinalizeBlock requests
\* only; every request of another kind that has been answered got the
\* success value that carries the response of its kind, whatever the
\* handler reports in it.
C29_OnlyTwoKindsFail ==
    /\ resp.tag = "Err" => req.kind \in FallibleKinds
    /\ (pc = "idle" /\ req.kind \in RequestKinds \ FallibleKinds) =>
           /\ resp.tag = "Ok"
           /\ resp.variant = req.kind

\* A proposal was rejected and the rejection is carried by a success value.
C29_Witness ==
    /\ pc = "idle"
    /\ req.kind = "ProcessProposal"
    /\ resp = OkResponse("ProcessProposal", 1)

\* run_aux has returned to its caller, or has re-raised a panic to it.
RunAuxReturned == ra_pc = "done"

RunAuxPanicked == ra_pc = "panicked"

\* C30: run_aux re-raises a panic exactly if the shell thread panicked, and
\* it does so after all five tasks have terminated; whatever the tasks
\* returned, run_aux returns normally if the shell thread ended normally.
C30_OnlyShellFailurePropagates ==
    /\ RunAuxReturned => shell_thread = "finished"
    /\ RunAuxPanicked =>
          /\ shell_thread = "panicked"
          /\ \A t \in Tasks : Joined(t)

\* Every cleanup job has returned.
CleanupsComplete ==
    /\ ~cleanup_wait
    /\ cleanup_i > Len(cleanup_jobs)
    /\ \A i \in 1..Len(cleanup_jobs) : cleanup_runs[cleanup_jobs[i]] = 1

\* run_aux is at, or past, the join of the shell thread.
AtShellJoin == ra_pc \in {"join_shell", "done", "panicked"}

====
